---- MODULE Spec2Model ----
(***************************************************************************)
(* A model of YakBot's Bloodborne cog (src/bot.py): the per-user worksheet *)
(* of the shared spreadsheet, the local sqlite cache table "builds", and   *)
(* the slash commands that read and write them.                            *)
(*                                                                         *)
(* Scheduling.  Every command is a coroutine on one asyncio event loop.    *)
(* A coroutine gives up control only at an `await`.  All gspread calls     *)
(* (worksheet, duplicate_sheet, get, update, acell, del_worksheet) are     *)
(* plain blocking calls, so a run of them between two awaits is one atomic *)
(* step.  The awaits are interaction.response.defer, the aiosqlite calls   *)
(* inside _load_cache / _save_cache / bb_delete, and followup.send.  An    *)
(* sqlite statement takes effect atomically at its commit.                 *)
(***************************************************************************)
EXTENDS Integers, Sequences, FiniteSets, TLC

VARIABLES
    tabs,      \* the spreadsheet self.sh: worksheet title -> cells, or NoTab
    dups,      \* per user: duplicate_sheet requests issued since the tab was last absent
    builds,    \* the sqlite table builds: a set of rows
    pc,        \* per command slot: the coroutine's position and locals
    h2k        \* /bb_matchup: the enemy's row and the damage cell it reads, and its
               \* hits-to-kill computation (inputs, stage, result)

vars == <<tabs, dups, builds, pc, h2k>>

----------------------------------------------------------------------------
(* Bounds of the model. *)
NUsers == 2
MaxCmds == 2
MaxStat == 1
MaxDmgLen == 3
MaxHealthLen == 2

(* Program constants. *)
NInputs == 6
NOutputs == 12

Users == 1..NUsers
Cmds == 1..MaxCmds

----------------------------------------------------------------------------
(* The spreadsheet. *)

\* titles are tuples so that f"u_{user_id}" can be built from its parts
BASE_SHEET_TITLE == <<"Character Sheet">>

\* f"u_{user_id}"
UserTabName(user_id) == <<"u_", user_id>>

Titles == {BASE_SHEET_TITLE} \cup {UserTabName(u) : u \in Users}

NoTab == [absent |-> TRUE]

\* The six attribute vectors a caller may pass to /bb_set.
StatVecs == {[i \in 1..NInputs |-> 10 * v + i] : v \in 1..MaxStat}

NGear == 8
NGems == 9
NKinds == 3
NMatchup == 7

\* Labels of M2:M13 as the embed's emoji_map expects them.
OutputLabels ==
    <<"Health", "Health (Phantom)", "Stamina", "Stamina/Second", "Discovery",
      "Defense", "Slow Poison Resist", "Rapid Poison Resist", "Frenzy Resist",
      "Beasthood", "Max Vials", "Max Bullets">>

\* The template tab's own cells: L8:L13, M2:M13, J2, Q2:Q9, Q17, R19,
\* S21:S29, Q23/Q26/Q29 and T36:T42.  An empty cell is "".
TemplateCells ==
    [inputs |-> [i \in 1..NInputs |-> i],
     labels |-> OutputLabels,
     origin |-> "",
     gear   |-> [i \in 1..NGear |-> ""],
     weapon |-> "",
     attack |-> "",
     gems   |-> [i \in 1..NGems |-> ""],
     kinds  |-> [i \in 1..NKinds |-> <<"Gem", i, "Curse/Tertiary">>],
     matchup |-> [i \in 1..NMatchup |-> ""]]

\* None, for an omitted argument or a read that failed
NoArg == "<None>"

\* _get_origin_choices: the non-empty cells of 'Origin Data'!B1:J1
OriginChoices == {"Noble Scion"}

\* The origin argument of /bb_set: omitted, a member of the list, or a
\* string that is no member (autocomplete suggests, it does not restrict).
OriginArgs == {NoArg, "Bogus"} \cup OriginChoices

\* `if origin:`
OriginGiven(origin) == origin # NoArg /\ origin # ""

\* The sheet's own formulas (O2:O13, J5) are opaque to the bot: some
\* function of the input cells.
OutputValue(inputs, i) == inputs[((i - 1) % NInputs) + 1] + i

RECURSIVE SumTo(_, _)
SumTo(s, n) == IF n = 0 THEN 0 ELSE s[n] + SumTo(s, n - 1)

LevelValue(inputs) == SumTo(inputs, NInputs)

----------------------------------------------------------------------------
(* gspread calls, as functions of the document. *)

\* self.sh.worksheet(title): found or WorksheetNotFound.
WorksheetFound(t, title) == t[title] # NoTab

\* self.sh.duplicate_sheet(source, new_sheet_name): the API rejects a name
\* that is already taken and otherwise adds a copy of the source tab.
DuplicateSheet(t, source, name) ==
    IF WorksheetFound(t, name) THEN t ELSE [t EXCEPT ![name] = t[source]]

\* self.sh.del_worksheet(ws)
DelWorksheet(t, title) == [t EXCEPT ![title] = NoTab]

\* _ensure_user_tab with the existence check left out
EnsureUserTabNoCheck(t, d, user_id) ==
    LET name == UserTabName(user_id) IN
    [tabs |-> DuplicateSheet(t, BASE_SHEET_TITLE, name),
     dups |-> [d EXCEPT ![user_id] = @ + 1],
     ws   |-> name,
     log  |-> <<"worksheet", "duplicate_sheet", "worksheet">>]

\* _ensure_user_tab that copies the template over a tab it found
EnsureUserTabRecopy(t, d, user_id) ==
    LET name == UserTabName(user_id) IN
    IF WorksheetFound(t, name)
    THEN [tabs |-> [t EXCEPT ![name] = t[BASE_SHEET_TITLE]], dups |-> d,
          ws |-> name, log |-> <<"worksheet">>]
    ELSE [tabs |-> DuplicateSheet(t, BASE_SHEET_TITLE, name),
          dups |-> [d EXCEPT ![user_id] = @ + 1],
          ws   |-> name,
          log  |-> <<"worksheet", "worksheet", "duplicate_sheet", "worksheet">>]

\* _ensure_user_tab: the tab by name if it exists, else a duplicate of the
\* template under that name.  The result carries the document after the
\* call, the handle (gspread addresses cells by title) and the calls made.
EnsureUserTab(t, d, user_id) ==
    LET name == UserTabName(user_id) IN
    IF WorksheetFound(t, name)
    THEN [tabs |-> t, dups |-> d, ws |-> name, log |-> <<"worksheet">>]
    ELSE [tabs |-> DuplicateSheet(t, BASE_SHEET_TITLE, name),
          dups |-> [d EXCEPT ![user_id] = @ + 1],
          ws   |-> name,
          log  |-> <<"worksheet", "worksheet", "duplicate_sheet", "worksheet">>]

\* _set_origin: J2:K2 <- origin
SetOrigin(t, ws, origin) == [t EXCEPT ![ws].origin = origin]

\* ws.update("L8:L13", ...)
WriteInputs(t, ws, stats) == [t EXCEPT ![ws].inputs = stats]

\* [int(v[0]) for v in ws.get("L8:L13")]
ReadInputs(t, ws) == t[ws].inputs

\* _read_outputs: the label/value pairs of M2:M13 and O2:O13, as many as the
\* shorter of the two reads holds.  ws.get gives the rows up to the last
\* non-empty cell; the formula cells O2:O13 always show a value.
ReadOutputs(t, ws) ==
    LET col    == t[ws].labels
        last   == IF \E i \in DOMAIN col : col[i] # ""
                  THEN CHOOSE i \in DOMAIN col :
                           col[i] # "" /\ \A j \in DOMAIN col : j > i => col[j] = ""
                  ELSE 0
        n      == IF last < NOutputs THEN last ELSE NOutputs
    IN [i \in 1..n |-> <<col[i], OutputValue(t[ws].inputs, i)>>]

\* _read_outputs: row[0] of an empty row inside the column raises IndexError
ReadOutputsRaises(t, ws) ==
    LET col == t[ws].labels IN
    \E i, j \in DOMAIN col : i < j /\ col[i] = "" /\ col[j] # ""

\* _read_level_and_origin: (J5, J2); a failed read gives None for that cell
ReadLevelAndOrigin(t, ws) ==
    IF WorksheetFound(t, ws)
    THEN [level |-> LevelValue(t[ws].inputs), origin |-> t[ws].origin]
    ELSE [level |-> NoArg, origin |-> NoArg]

----------------------------------------------------------------------------
(* Fixed regions of a tab: the reference lists, and merge-on-None writes. *)

\* _get_rune_choices, _get_oath_choices, _get_*_armor_choices: the
\* non-empty cells of 'Rune Data' and 'Armor Data', per gear slot Q2..Q9
GearChoices ==
    [i \in 1..NGear |->
        CASE i \in 1..3 -> {"Moon", "Eye"}
          [] i = 4 -> {"Hunter of Hunters"}
          [] i = 5 -> {"Top Hat"}
          [] i = 6 -> {"Hunter Garb"}
          [] i = 7 -> {"Hunter Gloves"}
          [] i = 8 -> {"Hunter Trousers"}]

\* _get_weapon_choices, _get_attack_choices, _get_gem_choices
WeaponChoices == {"Saw Cleaver", "Ludwig's Holy Blade"}
AttackChoices == {"R1", "R2"}
GemChoices == {"Tempering", "Adept"}

\* app_commands.choices of gemN_ct_kind
KindChoices == {"Curse", "Tertiary"}

\* ws.get(<column range>): one row per cell up to the last non-empty cell,
\* an empty cell giving an empty row
RECURSIVE GetColumn(_)
GetColumn(col) ==
    IF col = <<>> THEN <<>>
    ELSE IF col[Len(col)] = "" THEN GetColumn(SubSeq(col, 1, Len(col) - 1))
    ELSE [i \in 1..Len(col) |-> IF col[i] = "" THEN <<>> ELSE <<col[i]>>]

\* cur(i) / cur_g(i): current[i][0], or "" when that raises
Cur(current, i) ==
    IF i <= Len(current) /\ current[i] # <<>> THEN current[i][1] ELSE ""

\* a merge that writes an empty cell where None was given
MergeBlank(args, current, n) ==
    [i \in 1..n |-> IF args[i] # NoArg THEN args[i] ELSE ""]

\* the merge of _set_gear and of the gem column: the given value, or the
\* value just read when None was given
Merge(args, current, n) ==
    [i \in 1..n |-> IF args[i] # NoArg THEN args[i] ELSE Cur(current, i)]

\* _set_gear: read Q2:Q9, write Q2:Q9
SetGear(t, ws, gear) ==
    LET current == GetColumn(t[ws].gear) IN
    [tabs |-> [t EXCEPT ![ws].gear = Merge(gear, current, NGear)],
     log  |-> <<"get Q2:Q9", "update Q2:Q9">>]

\* f"Gem {n} {kind}"
KindLabel(n, kind) == <<"Gem", n, kind>>

\* the three label writes of _set_weapon_gems_attack, each made only when
\* its kind is given
WriteKinds(cells, kinds) ==
    [i \in 1..NKinds |-> IF kinds[i] # NoArg THEN KindLabel(i, kinds[i]) ELSE cells[i]]

KindsLog(kinds) ==
    (IF kinds[1] # NoArg THEN <<"update Q23">> ELSE <<>>)
    \o (IF kinds[2] # NoArg THEN <<"update Q26">> ELSE <<>>)
    \o (IF kinds[3] # NoArg THEN <<"update Q29">> ELSE <<>>)

\* an update that reads S21:S29 once and writes every cell in one call
SetWeaponGemsAttackBatched(t, ws, weapon, gems, attack, kinds) ==
    [tabs |-> [t EXCEPT ![ws].weapon = IF weapon # NoArg THEN weapon ELSE @,
                        ![ws].gems = Merge(gems, GetColumn(t[ws].gems), NGems),
                        ![ws].attack = IF attack # NoArg THEN attack ELSE @,
                        ![ws].kinds = WriteKinds(@, kinds)],
     log  |-> <<"get S21:S29", "update Q17:S29">>]

\* _set_weapon_gems_attack(ws, weapon, gems, attack, gem_ct_kinds) with
\* gem_ct_kinds a tuple, as bb_weapon passes it
SetWeaponGemsAttack(t, ws, weapon, gems, attack, kinds) ==
    LET t1 == IF weapon # NoArg THEN [t EXCEPT ![ws].weapon = weapon] ELSE t
        current_gems == GetColumn(t1[ws].gems)
        t2 == [t1 EXCEPT ![ws].gems = Merge(gems, current_gems, NGems)]
        t3 == IF attack # NoArg THEN [t2 EXCEPT ![ws].attack = attack] ELSE t2
        t4 == [t3 EXCEPT ![ws].kinds = WriteKinds(@, kinds)]
    IN [tabs |-> t4,
        log  |-> (IF weapon # NoArg THEN <<"update Q17">> ELSE <<>>)
                 \o <<"get S21:S29", "update S21:S29">>
                 \o (IF attack # NoArg THEN <<"update R19">> ELSE <<>>)
                 \o <<"get Q23:Q29">> \o KindsLog(kinds)]

----------------------------------------------------------------------------
(* The cache table. *)

\* dict(pairs): one entry per key, in order of first appearance, holding
\* the key's last value
DictPut(d, k, v) ==
    IF \E i \in 1..Len(d) : d[i][1] = k
    THEN [i \in 1..Len(d) |-> IF d[i][1] = k THEN <<k, v>> ELSE d[i]]
    ELSE Append(d, <<k, v>>)

RECURSIVE DictOf(_)
DictOf(pairs) ==
    IF pairs = <<>> THEN <<>>
    ELSE DictPut(DictOf(SubSeq(pairs, 1, Len(pairs) - 1)),
                 pairs[Len(pairs)][1], pairs[Len(pairs)][2])

Row(user_id, stats, pairs, tab_name) ==
    [user_id |-> user_id, inputs |-> stats, results |-> DictOf(pairs),
     sheet_tab |-> tab_name]

\* INSERT with no ON CONFLICT clause on a table with no key
InsertRow(b, user_id, stats, pairs, tab_name) ==
    b \cup {Row(user_id, stats, pairs, tab_name)}

\* an insert that leaves an existing row of the user as it is
InsertIfAbsent(b, user_id, stats, pairs, tab_name) ==
    IF \E r \in b : r.user_id = user_id THEN b
    ELSE b \cup {Row(user_id, stats, pairs, tab_name)}

\* _save_cache: INSERT ... ON CONFLICT(user_id) DO UPDATE SET every column
SaveCache(b, user_id, stats, pairs, tab_name) ==
    {r \in b : r.user_id # user_id} \cup {Row(user_id, stats, pairs, tab_name)}

\* _load_cache: the row's dict in a one-element sequence, or <<>> for None
LoadCache(b, user_id) ==
    IF \E r \in b : r.user_id = user_id
    THEN LET r == CHOOSE x \in b : x.user_id = user_id IN
         <<[inputs |-> r.inputs, results |-> r.results, tab |-> r.sheet_tab]>>
    ELSE <<>>

\* a DELETE with no WHERE clause
DeleteAllRows(b, user_id) == {}

\* DELETE FROM builds WHERE user_id=?
DeleteRow(b, user_id) == {r \in b : r.user_id # user_id}

----------------------------------------------------------------------------
(* The commands.  A slot holds one running command: its name, its user,   *)
(* the await it is suspended at, its locals, the gspread calls it has     *)
(* made, and, once it has replied, what it sent.                          *)

NoOut == [kind |-> "none"]

\* no hits-to-kill computation is under way
H2KIdle == [stage |-> "idle"]

\* alone records whether the command has so far run without any other
\* command of its user running between its first step and now; earlier
\* records, for a /bb_show that has read the sheet, the slots whose /bb_show
\* of the same user had read it before and had not replied yet
Idle == [op |-> "idle", user |-> 0, stage |-> "idle", fresh |-> FALSE, args |-> <<>>,
         cached |-> <<>>, snap |-> <<>>, log |-> <<>>, out |-> NoOut, alone |-> TRUE,
         earlier |-> {}]

\* followup.send(embed=_embed_from_results(user, inputs, pairs, level, origin))
BuildOut(inputs, pairs, lo) ==
    [kind |-> "build", inputs |-> inputs, pairs |-> pairs,
     level |-> lo.level, origin |-> lo.origin]

\* followup.send(<text>)
TextOut(kind) == [kind |-> kind]

Done(op, user_id, fresh, args, log, out) ==
    [op |-> op, user |-> user_id, stage |-> "done", fresh |-> fresh, args |-> args,
     cached |-> <<>>, snap |-> <<>>, log |-> log, out |-> out, alone |-> TRUE,
     earlier |-> {}]

\* slot c2 holds a command of user_id that has started and not yet replied
Active(c2, user_id) == pc[c2].user = user_id /\ pc[c2].stage \notin {"idle", "done"}

\* the slots once a command of user_id has started in slot c and reached rec
Started(c, user_id, rec) ==
    [c2 \in Cmds |->
        IF c2 = c
        THEN [rec EXCEPT !.alone = \A c3 \in Cmds \ {c} : ~Active(c3, user_id)]
        ELSE IF Active(c2, user_id)
             THEN [pc[c2] EXCEPT !.alone = FALSE, !.earlier = @ \ {c}]
        ELSE [pc[c2] EXCEPT !.earlier = @ \ {c}]]

\* /bb_set: one run of blocking calls between defer and followup.send
BbSet(c, user_id, stats, origin) ==
    /\ pc[c] = Idle
    /\ LET e     == EnsureUserTab(tabs, dups, user_id)
           t1    == IF OriginGiven(origin) THEN SetOrigin(e.tabs, e.ws, origin) ELSE e.tabs
           t2    == WriteInputs(t1, e.ws, stats)
           pairs == ReadOutputs(t2, e.ws)
           lo    == ReadLevelAndOrigin(t2, e.ws)
           calls == e.log \o (IF OriginGiven(origin) THEN <<"update J2:K2">> ELSE <<>>)
                          \o <<"update L8:L13", "get M2:M13", "get O2:O13",
                               "acell J5", "acell J2">>
       IN /\ tabs' = t2
          /\ dups' = e.dups
          /\ pc' = Started(c, user_id,
                           Done("bb_set", user_id, FALSE, <<stats, origin>>, calls,
                                BuildOut(stats, pairs, lo)))
    /\ UNCHANGED <<builds, h2k>>

\* /bb_show up to the SELECT of _load_cache
ShowLoad(c, user_id, fresh) ==
    /\ pc[c] = Idle
    /\ pc' = Started(c, user_id,
                     [Idle EXCEPT !.op = "bb_show", !.user = user_id, !.stage = "loaded",
                                  !.fresh = fresh, !.cached = LoadCache(builds, user_id)])
    /\ UNCHANGED <<tabs, dups, builds, h2k>>

\* a test that looks at the row only
ShowIsNotFoundIgnoringFresh(cached, fresh) == cached = <<>>

\* the test `not cached and not fresh` of bb_show
ShowIsNotFound(cached, fresh) == cached = <<>> /\ ~fresh

\* a test that sends every show to the sheet
ShowReadsSheetAlways(cached, fresh) == TRUE

\* the test `fresh or not cached` of bb_show
ShowReadsSheet(cached, fresh) == fresh \/ cached = <<>>

\* bb_show: "No cached build yet. Use `/bb_set` first."
ShowNotFound(c) ==
    /\ pc[c].op = "bb_show" /\ pc[c].stage = "loaded"
    /\ ShowIsNotFound(pc[c].cached, pc[c].fresh)
    /\ pc' = [pc EXCEPT ![c] =
                  Done("bb_show", pc[c].user, pc[c].fresh, <<>>, pc[c].log, TextOut("NotFound"))]
    /\ UNCHANGED <<tabs, dups, builds, h2k>>

\* bb_show, fresh branch up to the await of _save_cache
ShowRead(c) ==
    /\ pc[c].op = "bb_show" /\ pc[c].stage = "loaded"
    /\ ~ShowIsNotFound(pc[c].cached, pc[c].fresh)
    /\ ShowReadsSheet(pc[c].cached, pc[c].fresh)
    /\ LET e == EnsureUserTab(tabs, dups, pc[c].user) IN
       /\ tabs' = e.tabs
       /\ dups' = e.dups
       /\ pc' = [pc EXCEPT ![c].stage = "read",
                           ![c].cached = <<>>,
                           ![c].snap = <<[inputs |-> ReadInputs(e.tabs, e.ws),
                                          pairs  |-> ReadOutputs(e.tabs, e.ws),
                                          title  |-> e.ws]>>,
                           ![c].earlier = {c2 \in Cmds \ {c} :
                                              /\ pc[c2].op = "bb_show"
                                              /\ pc[c2].user = pc[c].user
                                              /\ pc[c2].stage \in {"read", "saved"}},
                           ![c].log = @ \o e.log \o <<"get L8:L13", "get M2:M13", "get O2:O13">>]
    /\ UNCHANGED <<builds, h2k>>

\* bb_show, fresh branch: the upsert of _save_cache
ShowSave(c) ==
    /\ pc[c].op = "bb_show" /\ pc[c].stage = "read"
    /\ LET s == pc[c].snap[1] IN
       builds' = SaveCache(builds, pc[c].user, s.inputs, s.pairs, s.title)
    /\ pc' = [pc EXCEPT ![c].stage = "saved"]
    /\ UNCHANGED <<tabs, dups, h2k>>

\* bb_show, fresh branch after _save_cache returned
ShowFinish(c) ==
    /\ pc[c].op = "bb_show" /\ pc[c].stage = "saved"
    /\ LET s  == pc[c].snap[1]
           lo == ReadLevelAndOrigin(tabs, s.title)
       IN pc' = [pc EXCEPT ![c] =
                     [Done("bb_show", pc[c].user, pc[c].fresh, <<>>,
                           pc[c].log \o <<"acell J5", "acell J2">>,
                           BuildOut(s.inputs, s.pairs, lo))
                        EXCEPT !.alone = pc[c].alone, !.earlier = pc[c].earlier]]
    /\ UNCHANGED <<tabs, dups, builds, h2k>>

\* bb_show, cached branch
ShowCached(c) ==
    /\ pc[c].op = "bb_show" /\ pc[c].stage = "loaded"
    /\ ~ShowIsNotFound(pc[c].cached, pc[c].fresh)
    /\ ~ShowReadsSheet(pc[c].cached, pc[c].fresh)
    /\ LET e  == EnsureUserTab(tabs, dups, pc[c].user)
           lo == ReadLevelAndOrigin(e.tabs, e.ws)
       IN /\ tabs' = e.tabs
          /\ dups' = e.dups
          /\ pc' = [pc EXCEPT ![c] =
                        Done("bb_show", pc[c].user, pc[c].fresh, <<>>,
                             pc[c].log \o e.log \o <<"acell J5", "acell J2">>,
                             BuildOut(pc[c].cached[1].inputs, pc[c].cached[1].results, lo))]
    /\ UNCHANGED <<builds, h2k>>

\* /bb_delete up to the SELECT of _load_cache
DelLoad(c, user_id) ==
    /\ pc[c] = Idle
    /\ pc' = Started(c, user_id,
                     [Idle EXCEPT !.op = "bb_delete", !.user = user_id, !.stage = "loaded",
                                  !.cached = LoadCache(builds, user_id)])
    /\ UNCHANGED <<tabs, dups, builds, h2k>>

\* bb_delete: "No personal tab/cache found."
DelNothing(c) ==
    /\ pc[c].op = "bb_delete" /\ pc[c].stage = "loaded"
    /\ pc[c].cached = <<>>
    /\ pc' = [pc EXCEPT ![c] =
                  Done("bb_delete", pc[c].user, FALSE, <<>>, pc[c].log, TextOut("NothingFound"))]
    /\ UNCHANGED <<tabs, dups, builds, h2k>>

\* bb_delete: worksheet(cached["tab"]) and del_worksheet, any exception passed over
DelSheet(c) ==
    /\ pc[c].op = "bb_delete" /\ pc[c].stage = "loaded"
    /\ pc[c].cached # <<>>
    /\ LET title == pc[c].cached[1].tab IN
       IF WorksheetFound(tabs, title)
       THEN /\ tabs' = DelWorksheet(tabs, title)
            /\ dups' = [dups EXCEPT ![pc[c].user] = 0]
            /\ pc' = [pc EXCEPT ![c].stage = "tabtried",
                                ![c].log = @ \o <<"worksheet", "del_worksheet">>]
       ELSE /\ UNCHANGED <<tabs, dups>>
            /\ pc' = [pc EXCEPT ![c].stage = "tabtried",
                                ![c].log = @ \o <<"worksheet">>]
    /\ UNCHANGED <<builds, h2k>>

\* bb_delete: del_worksheet raises (the API call fails) and the exception is
\* passed over
DelSheetFails(c) ==
    /\ pc[c].op = "bb_delete" /\ pc[c].stage = "loaded"
    /\ pc[c].cached # <<>>
    /\ WorksheetFound(tabs, pc[c].cached[1].tab)
    /\ pc' = [pc EXCEPT ![c].stage = "tabtried",
                        ![c].log = @ \o <<"worksheet", "del_worksheet">>]
    /\ UNCHANGED <<tabs, dups, builds, h2k>>

\* bb_delete: the DELETE and the reply
DelRow(c) ==
    /\ pc[c].op = "bb_delete" /\ pc[c].stage = "tabtried"
    /\ builds' = DeleteRow(builds, pc[c].user)
    /\ pc' = [pc EXCEPT ![c] =
                  Done("bb_delete", pc[c].user, FALSE, <<>>, pc[c].log, TextOut("Deleted"))]
    /\ UNCHANGED <<tabs, dups, h2k>>

\* the coroutine ends; the slot is free for the next command
Return(c) ==
    /\ pc[c].stage = "done"
    /\ pc' = [pc EXCEPT ![c] = Idle]
    /\ UNCHANGED <<tabs, dups, builds, h2k>>

\* The state after cog_load: the spreadsheet holds the template tab only,
\* the table builds exists and is empty, no command is running.
Init ==
    /\ tabs = [t \in Titles |-> IF t = BASE_SHEET_TITLE THEN TemplateCells ELSE NoTab]
    /\ dups = [u \in Users |-> 0]
    /\ builds = {}
    /\ pc = [c \in Cmds |-> Idle]
    /\ h2k = H2KIdle

Next ==
    \E c \in Cmds :
        \/ \E u \in Users, s \in StatVecs, o \in OriginArgs : BbSet(c, u, s, o)
        \/ \E u \in Users, f \in BOOLEAN : ShowLoad(c, u, f)
        \/ ShowNotFound(c)
        \/ ShowRead(c)
        \/ ShowSave(c)
        \/ ShowFinish(c)
        \/ ShowCached(c)
        \/ \E u \in Users : DelLoad(c, u)
        \/ DelNothing(c)
        \/ DelSheet(c)
        \/ DelSheetFails(c)
        \/ DelRow(c)
        \/ Return(c)

Spec == Init /\ [][Next]_vars

\* Label columns M2:M13 a template may hold: the expected labels, or those
\* with one row's label repeated in a later row.
LabelLists ==
    {OutputLabels} \cup
    {[OutputLabels EXCEPT ![j] = OutputLabels[i]] : i \in 1..NOutputs, j \in 2..NOutputs}

\* The state after cog_load on a spreadsheet whose template has any of these
\* label columns.
InitCache ==
    /\ \E labels \in LabelLists :
          tabs = [t \in Titles |-> IF t = BASE_SHEET_TITLE
                                   THEN [TemplateCells EXCEPT !.labels = labels]
                                   ELSE NoTab]
    /\ dups = [u \in Users |-> 0]
    /\ builds = {}
    /\ pc = [c \in Cmds |-> Idle]
    /\ h2k = H2KIdle

\* /bb_show alone: the commands that write and read the table
NextCache ==
    \E c \in Cmds :
        \/ \E u \in Users, f \in BOOLEAN : ShowLoad(c, u, f)
        \/ ShowNotFound(c)
        \/ ShowRead(c)
        \/ ShowSave(c)
        \/ ShowFinish(c)
        \/ ShowCached(c)
        \/ Return(c)

SpecCache == InitCache /\ [][NextCache]_vars

----------------------------------------------------------------------------
(* /bb_gear and /bb_weapon: each one run of blocking calls between defer   *)
(* and followup.send.                                                      *)

GearFields == <<"Rune1", "Rune2", "Rune3", "Oath", "Head", "Chest", "Arms", "Legs">>

GemFields ==
    <<"Gem 1 Primary", "Gem 1 Secondary", "Gem 1 Curse/Tertiary",
      "Gem 2 Primary", "Gem 2 Secondary", "Gem 2 Curse/Tertiary",
      "Gem 3 Primary", "Gem 3 Secondary", "Gem 3 Curse/Tertiary">>

\* a validation that finds nothing
BadNone(args, valid, names, n) == <<>>

\* the list `bad`: "<field>: <value>" for each given value that is not in
\* its list, in field order
RECURSIVE BadUpTo(_, _, _, _)
BadUpTo(args, valid, names, n) ==
    IF n = 0 THEN <<>>
    ELSE BadUpTo(args, valid, names, n - 1)
         \o (IF args[n] # NoArg /\ args[n] \notin valid[n]
             THEN <<<<names[n], args[n]>>>> ELSE <<>>)

GearValidationLog ==
    <<"get Rune Data!A2:A67", "get Rune Data!A68:A73", "get Armor Data!A2:A37",
      "get Armor Data!A38:A72", "get Armor Data!A73:A99", "get Armor Data!A100:A131">>

BbGear(c, user_id, gear) ==
    /\ pc[c] = Idle
    /\ LET e     == EnsureUserTab(tabs, dups, user_id)
           bad   == BadUpTo(gear, GearChoices, GearFields, NGear)
           w     == SetGear(e.tabs, e.ws, gear)
           q     == GetColumn(w.tabs[e.ws].gear)
           shown == [i \in 1..NGear |-> Cur(q, i)]
       IN /\ dups' = e.dups
          /\ IF bad # <<>>
             THEN /\ tabs' = e.tabs
                  /\ pc' = Started(c, user_id,
                                Done("bb_gear", user_id, FALSE, gear, e.log \o GearValidationLog,
                                     [kind |-> "invalid", bad |-> bad]))
             ELSE /\ tabs' = w.tabs
                  /\ pc' = Started(c, user_id,
                                Done("bb_gear", user_id, FALSE, gear,
                                     e.log \o GearValidationLog \o w.log
                                        \o <<"get Q2:Q9", "get T2", "get V2", "get W2",
                                             "get T4:T11", "get U4:W11">>,
                                     [kind |-> "gear", selections |-> shown, calls |-> w.log]))
    /\ UNCHANGED <<builds, h2k>>

WeaponValidationLog ==
    <<"get Weapon Data!A2:A43", "get Weapon Data!AJ2:AJ32", "get Weapon Data!B45:BN45">>

BbWeapon(c, user_id, weapon, attack, gems, kinds) ==
    /\ pc[c] = Idle
    /\ LET e     == EnsureUserTab(tabs, dups, user_id)
           bad   == (IF weapon # NoArg /\ weapon \notin WeaponChoices
                     THEN <<<<"Weapon", weapon>>>> ELSE <<>>)
                    \o (IF attack # NoArg /\ attack \notin AttackChoices
                        THEN <<<<"Attack", attack>>>> ELSE <<>>)
                    \o BadUpTo(gems, [i \in 1..NGems |-> GemChoices], GemFields, NGems)
           w     == SetWeaponGemsAttack(e.tabs, e.ws, weapon, gems, attack, kinds)
           now   == w.tabs[e.ws]
           args  == [weapon |-> weapon, attack |-> attack, gems |-> gems, kinds |-> kinds]
           s     == GetColumn(now.gems)
       IN /\ dups' = e.dups
          /\ IF bad # <<>>
             THEN /\ tabs' = e.tabs
                  /\ pc' = Started(c, user_id,
                                Done("bb_weapon", user_id, FALSE, args, e.log \o WeaponValidationLog,
                                     [kind |-> "invalid", bad |-> bad]))
             ELSE /\ tabs' = w.tabs
                  /\ pc' = Started(c, user_id,
                                Done("bb_weapon", user_id, FALSE, args,
                                     e.log \o WeaponValidationLog \o w.log
                                        \o <<"acell Q17", "acell R19", "get S21:S29",
                                             "acell Q23", "acell Q26", "acell Q29",
                                             "acell U17", "acell U43">>,
                                     [kind |-> "weapon", weapon |-> now.weapon,
                                      attack |-> now.attack,
                                      gems |-> [i \in 1..NGems |-> Cur(s, i)],
                                      kinds |-> now.kinds, calls |-> w.log]))
    /\ UNCHANGED <<builds, h2k>>

\* What a caller may pass for gear slot i: None, a member of the slot's
\* list, or a string that is no member.
GearArg(i) == {NoArg, "Bogus"} \cup GearChoices[i]

GearArgs ==
    {<<a1, a2, a3, a4, a5, a6, a7, a8>> :
        a1 \in GearArg(1), a2 \in GearArg(2), a3 \in GearArg(3), a4 \in GearArg(4),
        a5 \in GearArg(5), a6 \in GearArg(6), a7 \in GearArg(7), a8 \in GearArg(8)}

\* What a caller may pass to /bb_weapon.
WeaponArgs == {NoArg, "Saw Cleaver", "Bogus"}
AttackArgs == {NoArg, "R1", "Bogus"}
GemArgs ==
    LET listed == [1..NGems -> {NoArg, "Tempering"}] IN
    listed \cup {[g EXCEPT ![NGems] = "Bogus"] : g \in listed}
KindArgs == [1..NKinds -> {NoArg} \cup KindChoices]

\* A tab on which earlier commands have filled every gear and weapon cell.
LoadedCells ==
    [TemplateCells EXCEPT
        !.gear   = <<"Eye", "Eye", "Eye", "Hunter of Hunters", "Top Hat", "Hunter Garb",
                     "Hunter Gloves", "Hunter Trousers">>,
        !.weapon = "Ludwig's Holy Blade",
        !.attack = "R2",
        !.gems   = [i \in 1..NGems |-> "Adept"],
        !.kinds  = [i \in 1..NKinds |-> KindLabel(i, "Tertiary")]]

\* A tab on which earlier commands have filled some cells and left trailing
\* cells of each column empty.
SparseCells ==
    [TemplateCells EXCEPT
        !.gear   = <<"Eye", "", "Eye", "", "Top Hat", "", "", "">>,
        !.weapon = "Ludwig's Holy Blade",
        !.gems   = <<"Adept", "", "", "Adept", "", "Adept", "", "", "">>,
        !.kinds  = <<KindLabel(1, "Curse"), TemplateCells.kinds[2], KindLabel(3, "Tertiary")>>]

\* One /bb_gear or /bb_weapon of user 1, on a tab that is absent, fresh from
\* the template, or filled by earlier commands.
InitRegion ==
    /\ \E cells \in {NoTab, TemplateCells, LoadedCells, SparseCells} :
          /\ tabs = [t \in Titles |->
                        IF t = BASE_SHEET_TITLE THEN TemplateCells
                        ELSE IF t = UserTabName(1) THEN cells ELSE NoTab]
          /\ dups = [u \in Users |-> IF u = 1 /\ cells # NoTab THEN 1 ELSE 0]
    /\ builds = {}
    /\ pc = [c \in Cmds |-> Idle]
    /\ h2k = H2KIdle

NextRegion ==
    \/ /\ pc[1] = Idle
       /\ \E gear \in GearArgs : BbGear(1, 1, gear)
    \/ /\ pc[1] = Idle
       /\ \E weapon \in WeaponArgs, attack \in AttackArgs, gems \in GemArgs,
             kinds \in KindArgs :
             BbWeapon(1, 1, weapon, attack, gems, kinds)

SpecRegion == InitRegion /\ [][NextRegion]_vars

\* a command whose exception nothing catches: no reply is sent
Raised == [kind |-> "raised"]

\* /bb_gear when ws.get("Q2:Q9") of _set_gear raises
BbGearReadFails(c, user_id, gear) ==
    /\ pc[c] = Idle
    /\ BadUpTo(gear, GearChoices, GearFields, NGear) = <<>>
    /\ LET e == EnsureUserTab(tabs, dups, user_id) IN
       /\ tabs' = e.tabs
       /\ dups' = e.dups
       /\ pc' = Started(c, user_id,
                        Done("bb_gear", user_id, FALSE, gear,
                             e.log \o GearValidationLog \o <<"get Q2:Q9">>, Raised))
    /\ UNCHANGED <<builds, h2k>>

\* /bb_weapon when ws.get("S21:S29") of _set_weapon_gems_attack raises: Q17
\* has been written by then if a weapon was given
BbWeaponReadFails(c, user_id, weapon, attack, gems, kinds) ==
    /\ pc[c] = Idle
    /\ weapon \in WeaponChoices \cup {NoArg}
    /\ attack \in AttackChoices \cup {NoArg}
    /\ BadUpTo(gems, [i \in 1..NGems |-> GemChoices], GemFields, NGems) = <<>>
    /\ LET e    == EnsureUserTab(tabs, dups, user_id)
           t1   == IF weapon # NoArg THEN [e.tabs EXCEPT ![e.ws].weapon = weapon] ELSE e.tabs
           args == [weapon |-> weapon, attack |-> attack, gems |-> gems, kinds |-> kinds]
       IN /\ tabs' = t1
          /\ dups' = e.dups
          /\ pc' = Started(c, user_id,
                           Done("bb_weapon", user_id, FALSE, args,
                                e.log \o WeaponValidationLog
                                   \o (IF weapon # NoArg THEN <<"update Q17">> ELSE <<>>)
                                   \o <<"get S21:S29">>,
                                Raised))
    /\ UNCHANGED <<builds, h2k>>

\* One /bb_gear or /bb_weapon of user 1 whose read of the current cells fails.
NextRegionFails ==
    \/ /\ pc[1] = Idle
       /\ \E gear \in GearArgs : BbGearReadFails(1, 1, gear)
    \/ /\ pc[1] = Idle
       /\ \E weapon \in WeaponArgs, attack \in AttackArgs, gems \in GemArgs,
             kinds \in KindArgs :
             BbWeaponReadFails(1, 1, weapon, attack, gems, kinds)

SpecRegionFails == InitRegion /\ [][NextRegionFails]_vars

----------------------------------------------------------------------------
(* Hits to kill.  A cell's text is a sequence of characters; a float is   *)
(* the fraction num/den with den a power of ten.                          *)

Chars == {"0", "1", "2", ",", ".", "-", "x"}

Digits == <<"0", "1", "2", "3", "4", "5", "6", "7", "8", "9">>

DigitVal == [ch \in {Digits[i] : i \in DOMAIN Digits} |-> (CHOOSE i \in DOMAIN Digits : Digits[i] = ch) - 1]

IsDigit(ch) == ch \in DOMAIN DigitVal

NotComma(ch) == ch # ","

\* None
None == [none |-> TRUE]

\* a str
Str(chars) == [none |-> FALSE, chars |-> chars]

\* Python's truth value of a str or None
Truthy(s) == s # None /\ s.chars # <<>>

\* a replace that leaves the text as it is
KeepCommas(chars) == chars

\* s.replace(",", "")
DropCommas(chars) == SelectSeq(chars, NotComma)

RECURSIVE DecVal(_)
DecVal(digits) ==
    IF digits = <<>> THEN 0
    ELSE 10 * DecVal(SubSeq(digits, 1, Len(digits) - 1)) + DigitVal[digits[Len(digits)]]

RECURSIVE Pow10(_)
Pow10(n) == IF n = 0 THEN 1 ELSE 10 * Pow10(n - 1)

NoFloat == [ok |-> FALSE]

\* float(chars): an optional "-", then digits with at most one ".", at
\* least one digit; anything else raises ValueError (NoFloat)
ParseFloat(chars) ==
    LET neg  == chars # <<>> /\ chars[1] = "-"
        body == IF neg THEN Tail(chars) ELSE chars
        dots == {i \in DOMAIN body : body[i] = "."}
        good == /\ \A i \in DOMAIN body : IsDigit(body[i]) \/ body[i] = "."
                /\ Cardinality(dots) <= 1
                /\ \E i \in DOMAIN body : IsDigit(body[i])
        frac == IF dots = {} THEN 0 ELSE Len(body) - (CHOOSE i \in dots : TRUE)
        mag  == DecVal(SelectSeq(body, IsDigit))
    IN IF good
       THEN [ok |-> TRUE, num |-> IF neg THEN 0 - mag ELSE mag, den |-> Pow10(frac)]
       ELSE NoFloat

\* _read_enemy_health: float(v.replace(",", "")) if v else None, and None
\* when that raises
ReadEnemyHealth(cell) ==
    IF Truthy(cell) THEN ParseFloat(DropCommas(cell.chars)) ELSE NoFloat

\* math.ceil(a / b) for b > 0: the exact quotient, which the float quotient's
\* ceiling equals for every pair of texts of at most three characters and
\* for the grouped numerals
CeilDiv(a, b) == 0 - ((0 - a) \div b)

NoInt == [ok |-> FALSE]

\* a computation that takes a damage text it cannot parse as 1
ComputeH2KLenient(total_final_dmg, enemy_health) ==
    IF ~enemy_health.ok \/ enemy_health.num = 0 THEN NoInt
    ELSE LET dmg == IF Truthy(total_final_dmg)
                    THEN ParseFloat(DropCommas(total_final_dmg.chars)) ELSE NoFloat
         IN IF ~dmg.ok THEN [ok |-> TRUE, n |-> CeilDiv(enemy_health.num, enemy_health.den)]
            ELSE IF dmg.num <= 0 THEN NoInt
            ELSE [ok |-> TRUE,
                  n  |-> CeilDiv(enemy_health.num * dmg.den, enemy_health.den * dmg.num)]

\* _compute_h2k: None when `not total_final_dmg or not enemy_health` (None,
\* "" and 0.0 are all falsy), when float() raises, or when dmg <= 0; else
\* math.ceil(enemy_health / dmg)
ComputeH2K(total_final_dmg, enemy_health) ==
    IF ~Truthy(total_final_dmg) \/ ~enemy_health.ok \/ enemy_health.num = 0 THEN NoInt
    ELSE LET dmg == ParseFloat(DropCommas(total_final_dmg.chars)) IN
         IF ~dmg.ok THEN NoInt
         ELSE IF dmg.num <= 0 THEN NoInt
         ELSE [ok |-> TRUE,
               n  |-> CeilDiv(enemy_health.num * dmg.den, enemy_health.den * dmg.num)]

\* every text of at most n characters
RECURSIVE Texts(_)
Texts(n) ==
    IF n = 0 THEN {<<>>}
    ELSE LET shorter == Texts(n - 1) IN
         shorter \cup {Append(t, ch) : t \in {x \in shorter : Len(x) = n - 1}, ch \in Chars}

\* numbers as the sheet formats them, with a thousands separator
GroupedTexts ==
    {<<a, ",", b, c, d>> : a \in {"1", "5"}, b \in {"0", "2"}, c \in {"0", "2"}, d \in {"0", "2"}}
        \cup {<<"1", ",", "2", "3", "4">>, <<"5", "0", ",", "0", "0", "0">>}

\* what acell("U43").value and acell(f"C{row}").value may give
DmgCells == {None} \cup {Str(t) : t \in Texts(MaxDmgLen) \cup GroupedTexts}
HealthCells == {None} \cup {Str(t) : t \in Texts(MaxHealthLen) \cup GroupedTexts}

\* bb_matchup: enemy_health = self._read_enemy_health(row_index)
H2KReadHealth ==
    /\ h2k.stage = "cells"
    /\ h2k' = [h2k EXCEPT !.stage = "health", !.health = ReadEnemyHealth(h2k.hcell)]
    /\ UNCHANGED <<tabs, dups, builds, pc>>

\* bb_matchup: h2k = self._compute_h2k(total_final, enemy_health)
H2KCompute ==
    /\ h2k.stage = "health"
    /\ h2k' = [h2k EXCEPT !.stage = "result", !.result = ComputeH2K(h2k.dmg, h2k.health)]
    /\ UNCHANGED <<tabs, dups, builds, pc>>

\* The hits-to-kill computation on every pair of cell texts.
InitH2K ==
    /\ tabs = [t \in Titles |-> IF t = BASE_SHEET_TITLE THEN TemplateCells ELSE NoTab]
    /\ dups = [u \in Users |-> 0]
    /\ builds = {}
    /\ pc = [c \in Cmds |-> Idle]
    /\ \E d \in DmgCells, h \in HealthCells :
          h2k = [stage |-> "cells", dmg |-> d, hcell |-> h, health |-> NoFloat,
                 result |-> NoInt]

NextH2K == H2KReadHealth \/ H2KCompute

SpecH2K == InitH2K /\ [][NextH2K]_vars

----------------------------------------------------------------------------
(* /bb_matchup: one run of blocking calls between defer and followup.send. *)
(* The enemy's row of the enemydata sheet (F:L and C) and the damage cell  *)
(* U43, which the sheet computes, are held in h2k.                         *)

\* ws.get(<row range>)[0]: the cells up to the last non-empty one
RECURSIVE GetRow(_)
GetRow(cells) ==
    IF cells = <<>> THEN <<>>
    ELSE IF cells[Len(cells)] = "" THEN GetRow(SubSeq(cells, 1, Len(cells) - 1))
    ELSE cells

\* a write of the cells read only, with no padding
ApplyEnemyMatchupUnpadded(t, ws, erow) ==
    LET vals == GetRow(erow) IN
    [t EXCEPT ![ws].matchup =
        [i \in 1..NMatchup |-> IF i <= Len(vals) THEN vals[i] ELSE t[ws].matchup[i]]]

\* _apply_enemy_matchup: T36:T42 <- (vals + [""] * 7)[:7]
ApplyEnemyMatchup(t, ws, erow) ==
    LET vals == GetRow(erow) IN
    [t EXCEPT ![ws].matchup = [i \in 1..NMatchup |-> IF i <= Len(vals) THEN vals[i] ELSE ""]]

\* _read_matchup_block: the values of T36:T42, padded to 7 with ""
ReadMatchupBlock(t, ws) ==
    LET values == GetColumn(t[ws].matchup) IN
    [i \in 1..NMatchup |-> Cur(values, i)]

\* the enemy argument: a row index as text, or text int() cannot parse
EnemyRowArgs == {"3"}
EnemyArgs == EnemyRowArgs \cup {"x"}

BbMatchup(c, user_id, enemy) ==
    /\ pc[c] = Idle
    /\ h2k.stage = "cells"
    /\ LET e      == EnsureUserTab(tabs, dups, user_id)
           t1     == ApplyEnemyMatchup(e.tabs, e.ws, h2k.erow)
           health == ReadEnemyHealth(h2k.hcell)
           result == ComputeH2K(h2k.dmg, health)
       IN /\ dups' = e.dups
          /\ IF enemy \notin EnemyRowArgs
             THEN /\ tabs' = e.tabs
                  /\ h2k' = h2k
                  /\ pc' = Started(c, user_id,
                                   Done("bb_matchup", user_id, FALSE, enemy, e.log,
                                        TextOut("BadEnemy")))
             ELSE /\ tabs' = t1
                  /\ h2k' = [h2k EXCEPT !.stage = "result", !.health = health,
                                        !.result = result]
                  /\ pc' = Started(c, user_id,
                                   Done("bb_matchup", user_id, FALSE, enemy,
                                        e.log \o <<"get enemydata!F:L", "update T36:T42",
                                                   "get enemydata!A:B", "acell enemydata!C",
                                                   "acell U17", "acell U43",
                                                   "get Q36:Q42", "get T36:T42">>,
                                        [kind |-> "matchup",
                                         matchup |-> ReadMatchupBlock(t1, e.ws),
                                         dmg |-> h2k.dmg,
                                         h2k |-> IF health.ok /\ result.ok
                                                 THEN result ELSE NoInt]))
    /\ UNCHANGED builds

\* rows F:L of the enemydata sheet
EnemyRows == [1..NMatchup -> {"", "5"}]

\* a tab after a /bb_set and an earlier matchup that filled T36:T42
MatchedCells ==
    [TemplateCells EXCEPT !.inputs = [i \in 1..NInputs |-> 10 + i],
                          !.matchup = [i \in 1..NMatchup |-> "9"]]

\* User 1's tab is absent, fresh, or holds an earlier matchup; the enemy's row
\* and the damage cell hold any of these values.
InitMatchup ==
    /\ \E cells \in {NoTab, TemplateCells, MatchedCells} :
          /\ tabs = [t \in Titles |-> IF t = BASE_SHEET_TITLE THEN TemplateCells
                                       ELSE IF t = UserTabName(1) THEN cells ELSE NoTab]
          /\ dups = [u \in Users |-> IF u = 1 /\ cells # NoTab THEN 1 ELSE 0]
    /\ builds = {}
    /\ pc = [c \in Cmds |-> Idle]
    /\ \E d \in {None, Str(<<>>), Str(<<"2">>), Str(<<"x">>)},
          h \in {None, Str(<<>>), Str(<<"1", ",", "2">>), Str(<<"0">>), Str(<<"x">>)},
          erow \in EnemyRows :
          h2k = [stage |-> "cells", dmg |-> d, hcell |-> h, erow |-> erow,
                 health |-> NoFloat, result |-> NoInt]

NextMatchup == \E enemy \in EnemyArgs : BbMatchup(1, 1, enemy)

SpecMatchup == InitMatchup /\ [][NextMatchup]_vars

----------------------------------------------------------------------------
(* The reads of a tab's fixed regions, each on a tab whose regions are     *)
(* filled at some rows and empty at the others.                            *)

\* what a read of a region gave back
RegionRead(region, cells) == [kind |-> "region", region |-> region, cells |-> cells]

\* _set_gear: current = ws.get("Q2:Q9"), then cur(0) .. cur(7)
CallCur(c, user_id) ==
    /\ pc[c] = Idle
    /\ WorksheetFound(tabs, UserTabName(user_id))
    /\ LET current == GetColumn(tabs[UserTabName(user_id)].gear) IN
       pc' = Started(c, user_id,
                     Done("cur", user_id, FALSE, <<>>, <<"get Q2:Q9">>,
                          RegionRead("gear", [i \in 1..NGear |-> Cur(current, i)])))
    /\ UNCHANGED <<tabs, dups, builds, h2k>>

\* _set_weapon_gems_attack: current_gems = ws.get("S21:S29") or [], then
\* cur_g(0) .. cur_g(8)
CallCurG(c, user_id) ==
    /\ pc[c] = Idle
    /\ WorksheetFound(tabs, UserTabName(user_id))
    /\ LET current_gems == GetColumn(tabs[UserTabName(user_id)].gems) IN
       pc' = Started(c, user_id,
                     Done("cur_g", user_id, FALSE, <<>>, <<"get S21:S29">>,
                          RegionRead("gems", [i \in 1..NGems |-> Cur(current_gems, i)])))
    /\ UNCHANGED <<tabs, dups, builds, h2k>>

\* _read_matchup_block(ws)
CallReadMatchupBlock(c, user_id) ==
    /\ pc[c] = Idle
    /\ WorksheetFound(tabs, UserTabName(user_id))
    /\ pc' = Started(c, user_id,
                     Done("_read_matchup_block", user_id, FALSE, <<>>,
                          <<"get Q36:Q42", "get T36:T42">>,
                          RegionRead("matchup", ReadMatchupBlock(tabs, UserTabName(user_id)))))
    /\ UNCHANGED <<tabs, dups, builds, h2k>>

\* _read_outputs(ws)
CallReadOutputs(c, user_id) ==
    /\ pc[c] = Idle
    /\ WorksheetFound(tabs, UserTabName(user_id))
    /\ pc' = Started(c, user_id,
                     Done("_read_outputs", user_id, FALSE, <<>>,
                          <<"get M2:M13", "get O2:O13">>,
                          IF ReadOutputsRaises(tabs, UserTabName(user_id)) THEN Raised
                          ELSE RegionRead("outputs", ReadOutputs(tabs, UserTabName(user_id)))))
    /\ UNCHANGED <<tabs, dups, builds, h2k>>

\* A tab whose gear, gem, matchup and label columns hold a value at the rows
\* in filled and are empty at the other rows.
FilledCells(filled) ==
    [TemplateCells EXCEPT
        !.gear    = [i \in 1..NGear |-> IF i \in filled THEN LoadedCells.gear[i] ELSE ""],
        !.gems    = [i \in 1..NGems |-> IF i \in filled THEN "Adept" ELSE ""],
        !.matchup = [i \in 1..NMatchup |-> IF i \in filled THEN "9" ELSE ""],
        !.labels  = [i \in 1..NOutputs |-> IF i \in filled THEN OutputLabels[i] ELSE ""]]

\* User 1's tab holds any such cells.
InitRead ==
    /\ \E filled \in SUBSET (1..NOutputs) :
          tabs = [t \in Titles |-> IF t = BASE_SHEET_TITLE THEN TemplateCells
                                   ELSE IF t = UserTabName(1) THEN FilledCells(filled)
                                   ELSE NoTab]
    /\ dups = [u \in Users |-> IF u = 1 THEN 1 ELSE 0]
    /\ builds = {}
    /\ pc = [c \in Cmds |-> Idle]
    /\ h2k = H2KIdle

NextRead ==
    \/ CallCur(1, 1)
    \/ CallCurG(1, 1)
    \/ CallReadMatchupBlock(1, 1)
    \/ CallReadOutputs(1, 1)

SpecRead == InitRead /\ [][NextRead]_vars

----------------------------------------------------------------------------
(* Remote calls that fail.  A gspread call that raises inside a command    *)
(* with no try around it ends the coroutine there: the calls before it     *)
(* have taken effect and no reply is sent.                                 *)

\* /bb_set when ws.update("L8:L13") raises
BbSetWriteFails(c, user_id, stats, origin) ==
    /\ pc[c] = Idle
    /\ LET e  == EnsureUserTab(tabs, dups, user_id)
           t1 == IF OriginGiven(origin) THEN SetOrigin(e.tabs, e.ws, origin) ELSE e.tabs
       IN /\ tabs' = t1
          /\ dups' = e.dups
          /\ pc' = Started(c, user_id,
                           Done("bb_set", user_id, FALSE, <<stats, origin>>,
                                e.log \o (IF OriginGiven(origin) THEN <<"update J2:K2">> ELSE <<>>)
                                      \o <<"update L8:L13">>,
                                Raised))
    /\ UNCHANGED <<builds, h2k>>

\* /bb_show, fresh branch, when ws.get("L8:L13") raises
ShowReadFails(c) ==
    /\ pc[c].op = "bb_show" /\ pc[c].stage = "loaded"
    /\ ~ShowIsNotFound(pc[c].cached, pc[c].fresh)
    /\ ShowReadsSheet(pc[c].cached, pc[c].fresh)
    /\ LET e == EnsureUserTab(tabs, dups, pc[c].user) IN
       /\ tabs' = e.tabs
       /\ dups' = e.dups
       /\ pc' = [pc EXCEPT ![c] =
                     [Done("bb_show", pc[c].user, pc[c].fresh, <<>>,
                           pc[c].log \o e.log \o <<"get L8:L13">>, Raised)
                        EXCEPT !.alone = pc[c].alone]]
    /\ UNCHANGED <<builds, h2k>>

\* /bb_matchup when ws_e.get(f"F{row}:L{row}") of _apply_enemy_matchup raises
BbMatchupReadFails(c, user_id, enemy) ==
    /\ pc[c] = Idle
    /\ enemy \in EnemyRowArgs
    /\ LET e == EnsureUserTab(tabs, dups, user_id) IN
       /\ tabs' = e.tabs
       /\ dups' = e.dups
       /\ pc' = Started(c, user_id,
                        Done("bb_matchup", user_id, FALSE, enemy,
                             e.log \o <<"get enemydata!F:L">>, Raised))
    /\ UNCHANGED <<builds, h2k>>

\* one listed value for one field, the others None
OneGearArgs == {[i \in 1..NGear |-> IF i = 5 THEN a ELSE NoArg] : a \in {NoArg, "Top Hat"}}

\* The commands with their remote calls failing: each command's first
\* unguarded call, and the guarded del_worksheet of /bb_delete.
NextFails ==
    \E c \in Cmds :
        \/ \E u \in Users, s \in StatVecs, o \in OriginArgs : BbSetWriteFails(c, u, s, o)
        \/ \E u \in Users, gear \in OneGearArgs : BbGearReadFails(c, u, gear)
        \/ \E u \in Users, weapon \in {NoArg, "Saw Cleaver"} :
              BbWeaponReadFails(c, u, weapon, NoArg, [i \in 1..NGems |-> NoArg],
                                [i \in 1..NKinds |-> NoArg])
        \/ \E u \in Users, enemy \in EnemyRowArgs : BbMatchupReadFails(c, u, enemy)
        \/ \E u \in Users, f \in BOOLEAN : ShowLoad(c, u, f)
        \/ ShowNotFound(c)
        \/ ShowRead(c)
        \/ ShowReadFails(c)
        \/ ShowSave(c)
        \/ ShowFinish(c)
        \/ ShowCached(c)
        \/ \E u \in Users : DelLoad(c, u)
        \/ DelNothing(c)
        \/ DelSheet(c)
        \/ DelSheetFails(c)
        \/ DelRow(c)
        \/ Return(c)

SpecFails == Init /\ [][NextFails]_vars

----------------------------------------------------------------------------
(* All six commands of user 1, beside the tabs and cache rows of the other *)
(* users and their shows and deletes.                                      *)

\* a tab that /bb_set, /bb_gear, /bb_weapon and /bb_matchup have written
UsedCells ==
    [LoadedCells EXCEPT !.inputs = [i \in 1..NInputs |-> 10 + i],
                        !.origin = "Noble Scion",
                        !.matchup = [i \in 1..NMatchup |-> "9"]]

\* User 1 has no tab and no row; every other user has a tab in use and the
\* row a fresh /bb_show wrote.  The enemy's row, its health cell and the
\* damage cell are what /bb_matchup will read.
InitFrame ==
    /\ tabs = [t \in Titles |-> IF t = BASE_SHEET_TITLE THEN TemplateCells
                                 ELSE IF t = UserTabName(1) THEN NoTab ELSE UsedCells]
    /\ dups = [u \in Users |-> IF u = 1 THEN 0 ELSE 1]
    /\ builds = {Row(u, UsedCells.inputs,
                     ReadOutputs([t \in Titles |-> UsedCells], UserTabName(u)),
                     UserTabName(u)) : u \in Users \ {1}}
    /\ pc = [c \in Cmds |-> Idle]
    /\ h2k = [stage |-> "cells", dmg |-> Str(<<"2">>), hcell |-> Str(<<"1", ",", "2">>),
              erow |-> <<"5", "", "5", "", "", "", "">>,
              health |-> NoFloat, result |-> NoInt]

NextFrame ==
    \E c \in Cmds :
        \/ \E s \in StatVecs : BbSet(c, 1, s, "Noble Scion")
        \/ BbGear(c, 1, [i \in 1..NGear |-> IF i = 5 THEN "Top Hat" ELSE NoArg])
        \/ BbWeapon(c, 1, "Saw Cleaver", NoArg, [i \in 1..NGems |-> NoArg],
                    [i \in 1..NKinds |-> NoArg])
        \/ \E enemy \in EnemyRowArgs : BbMatchup(c, 1, enemy)
        \/ \E u \in Users : ShowLoad(c, u, TRUE)
        \/ ShowRead(c)
        \/ ShowSave(c)
        \/ ShowFinish(c)
        \/ \E u \in Users : DelLoad(c, u)
        \/ DelNothing(c)
        \/ DelSheet(c)
        \/ DelRow(c)
        \/ Return(c)

SpecFrame == InitFrame /\ [][NextFrame]_vars

----------------------------------------------------------------------------
(* Properties of the commands. *)

RowsOf(user_id) == {r \in builds : r.user_id = user_id}

HasTab(user_id) == WorksheetFound(tabs, UserTabName(user_id))

Called(c, call) == \E i \in DOMAIN pc[c].log : pc[c].log[i] = call

\* slot c takes a step (a change of `alone` or `earlier` only is another
\* slot's step)
Moves(c) ==
    [pc'[c] EXCEPT !.alone = TRUE, !.earlier = {}] # [pc[c] EXCEPT !.alone = TRUE, !.earlier = {}]

\* C1: commands of one user that overlap never issue the template
\* duplication twice: while a user's tab exists at most one duplicate_sheet
\* request has been issued for it, and none is outstanding while it is absent.
C1_DuplicateAtMostOnce ==
    \A u \in Users : dups[u] <= 1 /\ (dups[u] = 1 <=> HasTab(u))

\* two overlapping commands of one user have both run _ensure_user_tab, and
\* only one of them duplicated the template
C1_Witness ==
    \E c1, c2 \in Cmds :
        /\ c1 # c2
        /\ pc[c1].user = pc[c2].user
        /\ pc[c1].stage = "read" /\ pc[c2].stage = "read"
        /\ Called(c1, "duplicate_sheet") /\ ~Called(c2, "duplicate_sheet")
        /\ dups[pc[c1].user] = 1

\* C2: _ensure_user_tab on an existing tab returns that tab, issues only the
\* lookup and leaves every tab as it is; called twice in a row it leaves
\* exactly one tab of that name, created by at most one duplication.
C2_EnsureIdempotent ==
    \A u \in Users :
        LET e1 == EnsureUserTab(tabs, dups, u)
            e2 == EnsureUserTab(e1.tabs, e1.dups, u)
        IN /\ HasTab(u) => /\ e1.tabs = tabs
                           /\ e1.dups = dups
                           /\ e1.ws = UserTabName(u)
                           /\ e1.log = <<"worksheet">>
           /\ e2.tabs = e1.tabs
           /\ e2.ws = e1.ws
           /\ e2.log = <<"worksheet">>
           /\ WorksheetFound(e2.tabs, UserTabName(u))
           /\ e2.dups[u] = 1

\* a command found its user's tab, whose cells differ from the template's,
\* and left it alone
C2_Witness ==
    \E c \in Cmds :
        /\ pc[c].op = "bb_show" /\ pc[c].stage = "done" /\ pc[c].out.kind = "build"
        /\ pc[c].log = <<"worksheet", "acell J5", "acell J2">>
        /\ HasTab(pc[c].user)
        /\ tabs[UserTabName(pc[c].user)] # TemplateCells

\* a command that still has remote operations on its user's tab or cache
\* row ahead of it, after its first one
InProgress(c) ==
    \/ pc[c].stage \in {"read", "saved", "tabtried"}
    \/ pc[c].stage = "loaded" /\ pc[c].op = "bb_show" /\ pc[c].fresh
    \/ pc[c].stage = "loaded" /\ pc[c].op = "bb_delete" /\ pc[c].cached # <<>>

\* C4: no two commands of one user are both between their first and their
\* last remote operation on that user's tab or cache row.
C4_MutualExclusion ==
    \A c1, c2 \in Cmds :
        (c1 # c2 /\ InProgress(c1) /\ InProgress(c2)) => pc[c1].user # pc[c2].user

\* m is the label -> value mapping of pairs: one entry per label, holding
\* the value of the label's last pair
IsMappingOf(m, pairs) ==
    /\ \A i, j \in DOMAIN m : m[i][1] = m[j][1] => i = j
    /\ \A i \in DOMAIN pairs : \E j \in DOMAIN m : m[j][1] = pairs[i][1]
    /\ \A j \in DOMAIN m :
           \E i \in DOMAIN pairs :
               /\ pairs[i] = m[j]
               /\ \A k \in DOMAIN pairs : pairs[k][1] = m[j][1] => k <= i

C5_AtMostOneRow == \A u \in Users : Cardinality(RowsOf(u)) <= 1

\* C5: the table holds at most one row per user, and right after an upsert
\* the user's only row holds the inputs, the output mapping and the tab name
\* of that upsert.
C5_UpsertReplaces ==
    /\ []C5_AtMostOneRow
    /\ [][\A c \in Cmds :
            (pc[c].stage = "read" /\ pc'[c].stage = "saved") =>
                LET s == pc[c].snap[1] IN
                \E r \in builds' :
                    /\ {x \in builds' : x.user_id = pc[c].user} = {r}
                    /\ r.inputs = s.inputs
                    /\ IsMappingOf(r.results, s.pairs)
                    /\ r.sheet_tab = s.title]_vars

\* a second upsert for a user has replaced the values of an earlier one
C5_Witness ==
    \E c1, c2 \in Cmds :
        /\ c1 # c2
        /\ pc[c1].user = pc[c2].user
        /\ pc[c1].op = "bb_show" /\ pc[c1].stage = "done" /\ pc[c1].fresh
        /\ pc[c1].out.kind = "build"
        /\ pc[c2].stage = "saved"
        /\ pc[c2].snap[1].inputs # pc[c1].out.inputs
        /\ \E r \in builds : r.user_id = pc[c2].user /\ r.inputs = pc[c2].snap[1].inputs

C6_FreshEndsWithBuild ==
    \A c \in Cmds :
        (pc[c].op = "bb_show" /\ pc[c].stage = "done" /\ pc[c].fresh)
            => pc[c].out.kind = "build"

\* C6: /bb_show with fresh=False and no row replies NotFound having made no
\* call on the spreadsheet and changed neither tabs nor table; with
\* fresh=True and no row it goes on to read the tab and ends with a build.
C6_ShowWithoutCache ==
    /\ []C6_FreshEndsWithBuild
    /\ [][\A c \in Cmds :
            /\ (pc[c].stage = "idle" /\ pc'[c].op = "bb_show" /\ pc'[c].stage = "loaded")
                   => /\ UNCHANGED <<tabs, dups, builds>>
                      /\ (pc'[c].cached = <<>> <=> RowsOf(pc'[c].user) = {})
            /\ (pc[c].op = "bb_show" /\ pc[c].stage = "loaded" /\ Moves(c)
                /\ pc[c].cached = <<>> /\ ~pc[c].fresh)
                   => /\ pc'[c].stage = "done"
                      /\ pc'[c].out = [kind |-> "NotFound"]
                      /\ pc'[c].log = <<>>
                      /\ UNCHANGED <<tabs, dups, builds>>
            /\ (pc[c].op = "bb_show" /\ pc[c].stage = "loaded" /\ Moves(c)
                /\ pc[c].cached = <<>> /\ pc[c].fresh)
                   => /\ pc'[c].stage = "read"
                      /\ WorksheetFound(tabs', UserTabName(pc[c].user))
                      /\ pc'[c].snap[1].inputs = tabs'[UserTabName(pc[c].user)].inputs
                      /\ Called(c, "get L8:L13")'
          ]_vars

\* a user with neither tab nor row was told NotFound, and a fresh show of a
\* user who had no row ended with a build
C6_Witness ==
    \E c1, c2 \in Cmds :
        /\ pc[c1].op = "bb_show" /\ pc[c1].stage = "done" /\ ~pc[c1].fresh
        /\ pc[c1].out.kind = "NotFound"
        /\ ~HasTab(pc[c1].user) /\ RowsOf(pc[c1].user) = {}
        /\ pc[c2].op = "bb_show" /\ pc[c2].stage = "done" /\ pc[c2].fresh
        /\ pc[c2].out.kind = "build"
        /\ Called(c2, "duplicate_sheet")

\* C7: when /bb_set has replied, the user's row holds the six attributes
\* just given and the output pairs just read.
C7_SetWritesCache ==
    [][\A c \in Cmds :
        (pc[c].stage = "idle" /\ pc'[c].op = "bb_set" /\ pc'[c].stage = "done") =>
            \E r \in builds' :
                /\ r.user_id = pc'[c].user
                /\ r.inputs = pc'[c].out.inputs
                /\ IsMappingOf(r.results, pc'[c].out.pairs)]_vars

\* C8: when /bb_delete has replied, its user has neither a tab nor a row.
C8_DeleteRemovesBoth ==
    [][\A c \in Cmds :
        (pc[c].op = "bb_delete" /\ pc[c].stage # "done" /\ pc'[c].stage = "done") =>
            /\ ~WorksheetFound(tabs', UserTabName(pc[c].user))
            /\ {r \in builds' : r.user_id = pc[c].user} = {}]_vars

\* a /bb_show with fresh=False that found a row takes its next step
CachedShowStep(c) ==
    /\ pc[c].op = "bb_show" /\ pc[c].stage = "loaded" /\ Moves(c)
    /\ pc[c].cached # <<>> /\ ~pc[c].fresh

CellsBefore(user_id) ==
    IF HasTab(user_id) THEN tabs[UserTabName(user_id)] ELSE tabs[BASE_SHEET_TITLE]

\* C3: after a /bb_gear or /bb_weapon that passed validation every slot
\* holds the given value if one was given (a kind as "Gem N <kind>") and
\* else the value it held right before the command.
C3_PartialUpdate ==
    [][\A c \in Cmds :
        LET a      == pc'[c].args
            before == CellsBefore(pc'[c].user)
            after  == tabs'[UserTabName(pc'[c].user)]
        IN
        /\ (pc[c].stage = "idle" /\ pc'[c].op = "bb_gear" /\ pc'[c].out.kind = "gear") =>
              \A i \in 1..NGear :
                  after.gear[i] = IF a[i] # NoArg THEN a[i] ELSE before.gear[i]
        /\ (pc[c].stage = "idle" /\ pc'[c].op = "bb_weapon" /\ pc'[c].out.kind = "weapon") =>
              /\ after.weapon = IF a.weapon # NoArg THEN a.weapon ELSE before.weapon
              /\ after.attack = IF a.attack # NoArg THEN a.attack ELSE before.attack
              /\ \A i \in 1..NGems :
                    after.gems[i] = IF a.gems[i] # NoArg THEN a.gems[i] ELSE before.gems[i]
              /\ \A i \in 1..NKinds :
                    after.kinds[i] = IF a.kinds[i] # NoArg THEN <<"Gem", i, a.kinds[i]>>
                                     ELSE before.kinds[i]
      ]_vars

\* a /bb_weapon gave some slots and left others unset on a tab whose unset
\* slots were filled, and a /bb_gear did the same
C3_WitnessWeapon ==
    /\ pc[1].op = "bb_weapon" /\ pc[1].out.kind = "weapon"
    /\ pc[1].args.weapon = NoArg /\ pc[1].args.attack = "R1"
    /\ pc[1].args.gems[1] = "Tempering" /\ pc[1].args.gems[2] = NoArg
    /\ pc[1].args.kinds = <<"Curse", NoArg, NoArg>>
    /\ tabs[UserTabName(1)].weapon = "Ludwig's Holy Blade"
    /\ tabs[UserTabName(1)].gems[2] = "Adept"
    /\ tabs[UserTabName(1)].kinds = <<<<"Gem", 1, "Curse">>, <<"Gem", 2, "Tertiary">>,
                                      <<"Gem", 3, "Tertiary">>>>

\* a /bb_gear replaced one rune of a filled tab and left seven slots unset
C3_WitnessGear ==
    /\ pc[1].op = "bb_gear" /\ pc[1].out.kind = "gear"
    /\ pc[1].args = <<"Moon", NoArg, NoArg, NoArg, NoArg, NoArg, NoArg, NoArg>>
    /\ tabs[UserTabName(1)].gear =
           <<"Moon", "Eye", "Eye", "Hunter of Hunters", "Top Hat", "Hunter Garb",
             "Hunter Gloves", "Hunter Trousers">>

\* the value of a cell text as a number, when it is one
NumberOf(cell) == IF cell = None THEN NoFloat ELSE ParseFloat(DropCommas(cell.chars))

\* C10: the result is unknown exactly when the damage or the health is
\* missing or not a number, or the damage is <= 0; otherwise it is
\* ceiling(health / damage), so 0 for health 0.
C10_HitsToKill ==
    h2k.stage = "result" =>
        LET d == NumberOf(h2k.dmg)
            h == NumberOf(h2k.hcell)
        IN IF ~d.ok \/ ~h.ok \/ d.num <= 0
           THEN h2k.result = NoInt
           ELSE /\ h2k.result.ok
                /\ (h2k.result.n - 1) * d.num * h.den < h.num * d.den
                /\ h.num * d.den <= h2k.result.n * d.num * h.den

\* t is a numeral with thousands separators: a group of one to three digits
\* that does not start with 0, then one or more groups of "," and three digits
IsGrouped(t) ==
    /\ Len(t) >= 5
    /\ \A i \in DOMAIN t : IF (Len(t) - i + 1) % 4 = 0 THEN t[i] = "," ELSE IsDigit(t[i])
    /\ t[1] # "0"

\* the number a grouped numeral stands for
GroupedValue(t) == DecVal(SelectSeq(t, IsDigit))

\* C11: for a damage text and a health text that are both numerals with
\* thousands separators the result is known and is the ceiling of the
\* health over the damage.
C11_ThousandsSeparators ==
    (/\ h2k.stage = "result"
     /\ h2k.dmg # None /\ h2k.hcell # None
     /\ IsGrouped(h2k.dmg.chars) /\ IsGrouped(h2k.hcell.chars)) =>
        LET d == GroupedValue(h2k.dmg.chars)
            h == GroupedValue(h2k.hcell.chars)
        IN /\ h2k.result.ok
           /\ (h2k.result.n - 1) * d < h
           /\ h <= h2k.result.n * d

\* "1,234" against "50,000" gave 41
C11_Witness ==
    /\ h2k.stage = "result"
    /\ h2k.dmg = Str(<<"1", ",", "2", "3", "4">>)
    /\ h2k.hcell = Str(<<"5", "0", ",", "0", "0", "0">>)
    /\ h2k.result = [ok |-> TRUE, n |-> 41]

\* the arguments of command c hold a value that is not in its list
GearArgsInvalid(a) == \E i \in 1..NGear : a[i] # NoArg /\ a[i] \notin GearChoices[i]

WeaponArgsInvalid(a) ==
    \/ a.weapon # NoArg /\ a.weapon \notin WeaponChoices
    \/ a.attack # NoArg /\ a.attack \notin AttackChoices
    \/ \E i \in 1..NGems : a.gems[i] # NoArg /\ a.gems[i] \notin GemChoices

\* C12: a /bb_gear or /bb_weapon given a value that is not in its list
\* replies with the validation error, issues no update, and leaves every
\* cell of the user's tab as it was (as the template's, for a tab the
\* command has just duplicated).
C12_InvalidWritesNothing ==
    [][\A c \in Cmds :
        LET a == pc'[c].args IN
        (/\ pc[c].stage = "idle" /\ pc'[c].stage = "done"
         /\ \/ pc'[c].op = "bb_gear" /\ GearArgsInvalid(a)
            \/ pc'[c].op = "bb_weapon" /\ WeaponArgsInvalid(a)) =>
            /\ pc'[c].out.kind = "invalid"
            /\ tabs'[UserTabName(pc'[c].user)] = CellsBefore(pc'[c].user)
            /\ \A i \in DOMAIN pc'[c].log :
                   pc'[c].log[i] \in {"worksheet", "duplicate_sheet"}
                                      \cup {GearValidationLog[j] : j \in DOMAIN GearValidationLog}
                                      \cup {WeaponValidationLog[j] : j \in DOMAIN WeaponValidationLog}
      ]_vars

\* a /bb_weapon with a listed weapon, a listed first gem and an unlisted
\* last gem was refused on a filled tab, which still holds its cells
C12_Witness ==
    /\ pc[1].op = "bb_weapon" /\ pc[1].out.kind = "invalid"
    /\ pc[1].args.weapon = "Saw Cleaver" /\ pc[1].args.attack = "R1"
    /\ pc[1].args.gems[1] = "Tempering" /\ pc[1].args.gems[NGems] = "Bogus"
    /\ pc[1].out.bad = <<<<"Gem 3 Curse/Tertiary", "Bogus">>>>
    /\ tabs[UserTabName(1)] = LoadedCells

\* C13: when a /bb_show with fresh=True replies, having run with no other
\* command of its user under way, the user's one row holds the inputs, the
\* output pairs and the tab name the command read, which are those of the
\* tab.
C13_FreshShowCachesSnapshot ==
    [][\A c \in Cmds :
        (/\ pc[c].op = "bb_show" /\ pc[c].stage = "saved" /\ pc'[c].stage = "done"
         /\ pc[c].alone) =>
            LET s    == pc[c].snap[1]
                name == UserTabName(pc[c].user)
            IN /\ \E r \in builds' :
                     /\ {x \in builds' : x.user_id = pc[c].user} = {r}
                     /\ r.inputs = s.inputs
                     /\ r.results = s.pairs
                     /\ r.sheet_tab = s.title
               /\ s.title = name
               /\ s.inputs = tabs'[name].inputs
               /\ s.pairs = ReadOutputs(tabs', name)
               /\ pc'[c].out.inputs = s.inputs /\ pc'[c].out.pairs = s.pairs]_vars

\* a fresh show that ran alone replaced a row that held other inputs: an
\* earlier fresh show of the same user had shown those
C13_Witness ==
    \E c1, c2 \in Cmds :
        /\ c1 # c2 /\ pc[c1].user = pc[c2].user
        /\ pc[c1].op = "bb_show" /\ pc[c1].stage = "done" /\ pc[c1].fresh /\ pc[c1].alone
        /\ pc[c2].op = "bb_show" /\ pc[c2].stage = "done" /\ pc[c2].fresh /\ pc[c2].alone
        /\ pc[c1].out.kind = "build" /\ pc[c2].out.kind = "build"
        /\ pc[c1].out.inputs # pc[c2].out.inputs
        /\ \E r \in builds : r.user_id = pc[c1].user /\ r.inputs = pc[c1].out.inputs

\* C14: a load right after an upsert gives the six inputs, the tab name and
\* the output pairs of that upsert, as many and in the same order, also when
\* two pairs carry the same label.
C14_SaveLoadRoundTrip ==
    [][\A c \in Cmds :
        (pc[c].op = "bb_show" /\ pc[c].stage = "read" /\ pc'[c].stage = "saved") =>
            LET s == pc[c].snap[1] IN
            LoadCache(builds', pc[c].user)
                = <<[inputs |-> s.inputs, results |-> s.pairs, tab |-> s.title]>>]_vars

\* what a /bb_show with fresh=False of user_id would reply in this state
CachedView(user_id) ==
    LET cached == LoadCache(builds, user_id)
        e      == EnsureUserTab(tabs, dups, user_id)
    IN BuildOut(cached[1].inputs, cached[1].results, ReadLevelAndOrigin(e.tabs, e.ws))

\* C15: a step that writes no row of a user who has one leaves every field
\* of what a /bb_show with fresh=False would reply as it was, the level
\* shown is that of the inputs shown, and /bb_gear and /bb_weapon leave the
\* table as it is.
C15_StaleUnobservable ==
    [][/\ \A u \in Users :
            (RowsOf(u) # {} /\ {x \in builds' : x.user_id = u} = RowsOf(u)) =>
                CachedView(u)' = CachedView(u)
       /\ \A c \in Cmds :
            /\ CachedShowStep(c) =>
                  pc'[c].out.level = LevelValue(pc[c].cached[1].inputs)
            /\ (pc[c].stage = "idle" /\ pc'[c].op \in {"bb_gear", "bb_weapon"}) =>
                  builds' = builds]_vars

\* C16: a /bb_delete that ran with no other command of its user under way
\* removes the row only when the tab is gone, and replies that tab and
\* cache have been deleted only when the tab is gone.
C16_DeletedTogether ==
    [][\A c \in Cmds :
        (/\ pc[c].op = "bb_delete" /\ pc[c].alone
         /\ pc[c].stage = "tabtried" /\ pc'[c].stage = "done") =>
            LET name == UserTabName(pc[c].user) IN
            /\ (RowsOf(pc[c].user) # {} /\ WorksheetFound(tabs', name)) =>
                   {x \in builds' : x.user_id = pc[c].user} = RowsOf(pc[c].user)
            /\ pc'[c].out.kind = "Deleted" => ~WorksheetFound(tabs', name)]_vars

C17_OriginCellListed ==
    \A u \in Users :
        HasTab(u) => tabs[UserTabName(u)].origin \in {TemplateCells.origin} \cup OriginChoices

\* C17: the origin cell of a user's tab always holds the template's value or
\* a member of the origins list, and a /bb_set given an origin that is not
\* in the list leaves the origin cell as it was.
C17_OriginValidated ==
    /\ []C17_OriginCellListed
    /\ [][\A c \in Cmds :
            (/\ pc[c].stage = "idle" /\ pc'[c].op = "bb_set"
             /\ pc'[c].args[2] \notin OriginChoices) =>
                tabs'[UserTabName(pc'[c].user)].origin = CellsBefore(pc'[c].user).origin]_vars

\* C18: after /bb_matchup has applied an enemy's row, each of T36:T42 holds
\* the enemy's cell of the same position, "" where that cell is empty,
\* whatever T36:T42 held before.
C18_MatchupReplacesAll ==
    [][\A c \in Cmds :
        (pc[c].stage = "idle" /\ pc'[c].op = "bb_matchup" /\ pc'[c].out.kind = "matchup") =>
            /\ \A i \in 1..NMatchup :
                  tabs'[UserTabName(pc'[c].user)].matchup[i] = h2k.erow[i]
            /\ Len(tabs'[UserTabName(pc'[c].user)].matchup) = NMatchup]_vars

\* an enemy row with empty cells in the middle and at the end was applied
\* to a tab whose seven cells were all filled
C18_Witness ==
    /\ pc[1].op = "bb_matchup" /\ pc[1].out.kind = "matchup"
    /\ h2k.erow = <<"5", "", "5", "", "", "", "">>
    /\ tabs[UserTabName(1)].matchup = <<"5", "", "5", "", "", "", "">>
    /\ tabs[UserTabName(1)].inputs = MatchedCells.inputs

\* the calls of a finished command's merge-on-None update that read, and
\* those that write
ReadsOf(calls) == {i \in DOMAIN calls : calls[i] \in {"get Q2:Q9", "get S21:S29", "get Q23:Q29"}}

WritesOf(calls) == DOMAIN calls \ ReadsOf(calls)

\* the number of arguments given among weapon, attack and the three kinds
GivenSingles(a) ==
    Cardinality({i \in 1..NKinds : a.kinds[i] # NoArg})
        + (IF a.weapon # NoArg THEN 1 ELSE 0) + (IF a.attack # NoArg THEN 1 ELSE 0)

C20_FailedReadWritesNothing ==
    [][\A c \in Cmds :
        (pc[c].stage = "idle" /\ pc'[c].stage = "done" /\ pc'[c].out = Raised) =>
            tabs'[UserTabName(pc'[c].user)] = CellsBefore(pc'[c].user)]_vars

\* the cells of a region of user_id's tab, in cell order
RegionCells(user_id, region) ==
    LET cells == tabs[UserTabName(user_id)] IN
    CASE region = "gear" -> cells.gear
      [] region = "gems" -> cells.gems
      [] region = "matchup" -> cells.matchup
      [] region = "outputs" ->
            [i \in 1..NOutputs |-> <<cells.labels[i], OutputValue(cells.inputs, i)>>]

RegionReads == {"cur", "cur_g", "_read_matchup_block", "_read_outputs"}

\* the read that slot c made returned every cell of its region, in order
ReadIsWholeRegion(c) ==
    /\ pc[c].out.kind = "region"
    /\ pc[c].out.cells = RegionCells(pc[c].user, pc[c].out.region)

\* The reads of the gear, gem and matchup columns return 8, 9 and 7 values in
\* cell order, an empty cell as "".
C21_FixedColumnsPadded ==
    \A c \in Cmds :
        pc[c].op \in RegionReads \ {"_read_outputs"} /\ pc[c].stage = "done"
            => ReadIsWholeRegion(c)

\* C21: every read of a region returns a list of the region's declared
\* width in cell order, an empty trailing cell as "": 8 gear values, 9 gem
\* values, 7 matchup values, and 12 label/value pairs whatever the label
\* column holds.
C21_ReadRegionPadded ==
    \A c \in Cmds :
        pc[c].op \in RegionReads /\ pc[c].stage = "done" => ReadIsWholeRegion(c)

\* the cell holds no number: it is empty, its read failed (both give None or
\* ""), or its text is not a numeral
NoNumber(cell) == ~NumberOf(cell).ok \/ ~Truthy(cell)

C23_NoUncaughtFailure ==
    \A c \in Cmds : pc[c].stage = "done" => pc[c].out # Raised

\* the user whose command slot c holds before or after a step
UserOf(c) == IF pc[c].stage = "idle" THEN pc'[c].user ELSE pc[c].user

\* C24: a step of any command of user A, /bb_delete included, leaves as they
\* were the tab of every other user B (present or absent, and every cell), B's
\* rows of the table builds, the template tab, and the enemy's row and health
\* cell of the enemydata sheet.
C24_OtherUsersUntouched ==
    [][\A c \in Cmds :
        Moves(c) =>
            /\ \A b \in Users \ {UserOf(c)} :
                  /\ tabs'[UserTabName(b)] = tabs[UserTabName(b)]
                  /\ {r \in builds' : r.user_id = b} = RowsOf(b)
            /\ tabs'[BASE_SHEET_TITLE] = tabs[BASE_SHEET_TITLE]
            /\ h2k'.erow = h2k.erow
            /\ h2k'.hcell = h2k.hcell]_vars

\* user 1 has set a build, cached it and deleted both, and has run a matchup;
\* user 2's tab and row are there as before
C24_Witness ==
    /\ \E c \in Cmds : /\ pc[c].op = "bb_delete" /\ pc[c].user = 1
                        /\ pc[c].out = TextOut("Deleted")
                        /\ Called(c, "del_worksheet")
    /\ ~HasTab(1)
    /\ RowsOf(1) = {}
    /\ h2k.stage = "result"
    /\ tabs[UserTabName(2)] = UsedCells
    /\ RowsOf(2) # {}
    /\ tabs[BASE_SHEET_TITLE] = TemplateCells

\* C25: whenever no command of a user is between two of its awaits, the user
\* has a row in builds only if the user's tab exists, however the user's
\* fresh shows and deletes interleaved before.
C25_CacheImpliesSheet ==
    \A u \in Users :
        (\A c \in Cmds : ~Active(c, u)) => (RowsOf(u) # {} => HasTab(u))

\* slot c holds a fresh /bb_show of user u that has read the sheet and replied
FreshShowDone(c, u) ==
    /\ pc[c].op = "bb_show" /\ pc[c].user = u /\ pc[c].fresh
    /\ pc[c].stage = "done" /\ pc[c].out.kind = "build"

\* C26: when two fresh shows of one user overlapped, the second read the
\* sheet after the first had and found other values, and both have replied,
\* the user's row holds what the second read.
C26_LaterReadIsCached ==
    \A u \in Users : \A first, second \in Cmds :
        (/\ FreshShowDone(first, u) /\ FreshShowDone(second, u)
         /\ first \in pc[second].earlier
         /\ pc[first].out.inputs # pc[second].out.inputs) =>
            RowsOf(u) = {Row(u, pc[second].out.inputs, pc[second].out.pairs, UserTabName(u))}

\* C27: a hits-to-kill value that _compute_h2k returns is an integer of at
\* least 1, whatever numbers the health and the damage cell hold, a negative
\* health included.
C27_H2KAtLeastOne ==
    (h2k.stage = "result" /\ h2k.result.ok) => h2k.result.n >= 1

====
